---- MODULE Spec2Model ----
(***************************************************************************)
(* Screenplay Translator backend: the session table of app/main.py, the    *)
(* background pipeline task run_pipeline, the progress stream              *)
(* progress.event_stream and the debug and download endpoints.             *)
(*                                                                         *)
(* Everything runs on one asyncio event loop, so a coroutine runs without  *)
(* interruption from one suspension point (await, yield) to the next: each *)
(* action below is one such uninterrupted run.  The four agents run in the *)
(* executor; all the pipeline sees of them is that the awaited call        *)
(* returns a value or raises.                                              *)
(*                                                                         *)
(* The second half follows the agent functions themselves, one call at a   *)
(* time: the chunking of parse_fountain, translate_screenplay with its     *)
(* context windows and merge, format_fountain and the layout of            *)
(* format_pdf.                                                             *)
(***************************************************************************)
EXTENDS Integers, Sequences, FiniteSets, TLC

\* Bounds of the model.
MaxJobs == 2          \* submissions accepted (session ids issued)
MaxWatchers == 1      \* progress requests made

\* Python's None, and a present value, for the Optional fields.
None == << >>
Some(v) == << v >>

\* The identifiers uuid4 issues, and one that was never issued.
SessionIds == 1 .. MaxJobs
UnknownId == MaxJobs + 1
RequestIds == SessionIds \cup {UnknownId}
WatcherIds == 1 .. MaxWatchers

\* str(e) of the exception a failing step raises (it may be empty).
ErrorTexts == {"", "boom"}

\* The {format} path segment of a download request.
Formats == {"fountain", "pdf", "docx"}

Stages == {"queued", "parsing", "translating", "formatting",
           "generating_output", "done", "error"}

VARIABLES
  sessions,   \* the dict sessions: session id -> session record
  task,       \* session id -> where that job's run_pipeline task stands
  files,      \* the files present under OUTPUT_DIR
  watchers,   \* watcher id -> the state of one /progress request and its stream
  resp,       \* the response to the latest debug or download request
  parser,     \* one call of parse_fountain: its input and its chunks
  translator, \* one call of translate_screenplay: its document and locals
  reassembler,\* one call of format_fountain: its document and its output
  pdf         \* one call of format_pdf: its input, cursor and drawn lines

\* An agent function nobody has called.
NotCalled == [ pc |-> "idle" ]

\* The state of the server: what main.py keeps.
server == << sessions, task, files, watchers, resp >>

\* The locals of one call of each agent function.
agents == << parser, translator, reassembler, pdf >>

vars == << sessions, task, files, watchers, resp,
           parser, translator, reassembler, pdf >>

\* OUTPUT_DIR / f"{session_id}.{ext}"
OutputPath(session_id, ext) == [sid |-> session_id, ext |-> ext]

----------------------------------------------------------------------------
(* The session records and the three ways the code writes them.            *)

\* The dict literal translate stores for a new session.
NewSession ==
  [ stage |-> "queued", progress |-> 0, message |-> "Na fila...",
    fountain_path |-> None, pdf_path |-> None, error |-> None ]

\* Mutant of update: the record written is one shared by every session.
update_AllSessions(tbl, session_id, stage, progress, message) ==
  [ t \in DOMAIN tbl |->
      [ tbl[t] EXCEPT !.stage = stage, !.progress = progress,
                      !.message = message ] ]

\* Mutant of update: the progress entry is left out of the dict.update.
update_KeepsProgress(tbl, session_id, stage, progress, message) ==
  [ tbl EXCEPT ![session_id] =
      [ @ EXCEPT !.stage = stage, !.message = message ] ]

\* run_pipeline.update: one dict.update of stage, progress and message.
update(tbl, session_id, stage, progress, message) ==
  [ tbl EXCEPT ![session_id] =
      [ @ EXCEPT !.stage = stage, !.progress = progress, !.message = message ] ]

\* Mutant of MarkDone: the pdf_path entry is left out of the dict.update.
MarkDone_NoPdfPath(tbl, session_id, fountain_path, pdf_path) ==
  [ tbl EXCEPT ![session_id] =
      [ @ EXCEPT !.stage = "done", !.progress = 100,
                 !.message = "Tradução concluída!",
                 !.fountain_path = Some(fountain_path) ] ]

\* The dict.update that ends a successful pipeline.
MarkDone(tbl, session_id, fountain_path, pdf_path) ==
  [ tbl EXCEPT ![session_id] =
      [ @ EXCEPT !.stage = "done", !.progress = 100,
                 !.message = "Tradução concluída!",
                 !.fountain_path = Some(fountain_path),
                 !.pdf_path = Some(pdf_path) ] ]

\* The dict.update of the except clause.
MarkError(tbl, session_id, e) ==
  [ tbl EXCEPT ![session_id] =
      [ @ EXCEPT !.stage = "error", !.progress = 0,
                 !.message = "Erro durante a tradução.",
                 !.error = Some(e) ] ]

\* An HTTP response: the request it answers, its status code and the file a
\* FileResponse serves.
Response(op, session_id, format, status, file) ==
  [ op |-> op, sid |-> session_id, format |-> format, status |-> status,
    file |-> file ]

----------------------------------------------------------------------------
Init ==
  /\ sessions = << >>
  /\ task = << >>
  /\ files = {}
  /\ watchers = [ w \in WatcherIds |->
                    [ pc |-> "idle", sid |-> UnknownId, last_stage |-> None,
                      current_stage |-> None, emitted |-> << >> ] ]
  /\ resp = Response("none", UnknownId, "", 0, None)
  /\ parser = NotCalled
  /\ translator = NotCalled
  /\ reassembler = NotCalled
  /\ pdf = NotCalled

\* uuid4(): an identifier no session has yet.
FreshId == CHOOSE s \in SessionIds \ DOMAIN sessions :
             \A t \in SessionIds \ DOMAIN sessions : s <= t

\* POST /translate: rejects a file that is not .fountain (400) or does not
\* decode as UTF-8 (500) and touches nothing; otherwise stores the new
\* session and creates the pipeline task, which first runs at a later turn
\* of the event loop.
translate(is_fountain, decodes) ==
  IF ~is_fountain \/ ~decodes
  THEN UNCHANGED vars
  ELSE /\ DOMAIN sessions # SessionIds
       /\ sessions' = sessions @@ (FreshId :> NewSession)
       /\ task' = task @@ (FreshId :> [ pc |-> "created", raised |-> None ])
       /\ UNCHANGED << files, watchers, resp, agents >>

----------------------------------------------------------------------------
(* run_pipeline.  task[s].pc is the await the task is suspended at:        *)
(* "created" before its first run, "parse", "translate", "format", "pdf"   *)
(* while the executor runs that agent, "returned" once the coroutine has   *)
(* returned, "raised" if an exception left it.  An awaited call either     *)
(* returns (raised = None) or raises an exception e (raised = Some(e));    *)
(* task[s].raised keeps the exception the try block raised, if any.        *)

Raises == {None} \cup { Some(e) : e \in ErrorTexts }

\* The except clause: record the error; the coroutine then returns.
Fail(s, e) ==
  /\ sessions' = MarkError(sessions, s, e)
  /\ task' = [ task EXCEPT ![s] = [ pc |-> "returned", raised |-> Some(e) ] ]

\* The task goes on to its next await.
Await(s, pc) == task' = [ task EXCEPT ![s].pc = pc ]

\* First run of the task, up to the await of parse_fountain.
PipelineStart(s) ==
  /\ s \in DOMAIN task /\ task[s].pc = "created"
  /\ sessions' = update(sessions, s, "parsing", 10, "Analisando o roteiro...")
  /\ Await(s, "parse")
  /\ UNCHANGED << files, watchers, resp, agents >>

\* Mutant of ParseReturns: the update after parsing names the stage after
\* the next one.
ParseReturns_SkipsStage(s, raised) ==
  /\ s \in DOMAIN task /\ task[s].pc = "parse"
  /\ IF raised # None
     THEN Fail(s, raised[1])
     ELSE /\ sessions' = update(sessions, s, "formatting", 40,
                                "Traduzindo para português brasileiro...")
          /\ Await(s, "translate")
  /\ UNCHANGED << files, watchers, resp, agents >>

\* parse_fountain returns or raises; on return, up to the await of
\* translate_screenplay.
ParseReturns(s, raised) ==
  /\ s \in DOMAIN task /\ task[s].pc = "parse"
  /\ IF raised # None
     THEN Fail(s, raised[1])
     ELSE /\ sessions' = update(sessions, s, "translating", 40,
                                "Traduzindo para português brasileiro...")
          /\ Await(s, "translate")
  /\ UNCHANGED << files, watchers, resp, agents >>

\* Mutant of TranslateReturns: the failure is recorded by a handler around
\* the one call, and the pipeline goes on to the next agent.
TranslateReturns_GoesOnAfterError(s, raised) ==
  /\ s \in DOMAIN task /\ task[s].pc = "translate"
  /\ IF raised # None
     THEN /\ sessions' = MarkError(sessions, s, raised[1])
          /\ task' = [ task EXCEPT ![s] = [ pc |-> "format", raised |-> raised ] ]
     ELSE /\ sessions' = update(sessions, s, "formatting", 70,
                                "Reconstruindo o roteiro em Fountain...")
          /\ Await(s, "format")
  /\ UNCHANGED << files, watchers, resp, agents >>

\* translate_screenplay returns or raises; on return, up to the await of
\* format_fountain.
TranslateReturns(s, raised) ==
  /\ s \in DOMAIN task /\ task[s].pc = "translate"
  /\ IF raised # None
     THEN Fail(s, raised[1])
     ELSE /\ sessions' = update(sessions, s, "formatting", 70,
                                "Reconstruindo o roteiro em Fountain...")
          /\ Await(s, "format")
  /\ UNCHANGED << files, watchers, resp, agents >>

\* Mutant of FormatReturns: the progress value is written with its digits
\* swapped.
FormatReturns_LowProgress(s, raised) ==
  /\ s \in DOMAIN task /\ task[s].pc = "format"
  /\ IF raised # None
     THEN Fail(s, raised[1])
     ELSE /\ sessions' = update(sessions, s, "generating_output", 58,
                                "Gerando PDF...")
          /\ Await(s, "pdf")
  /\ UNCHANGED << files, watchers, resp, agents >>

\* format_fountain returns or raises; on return, up to the await of
\* format_pdf.
FormatReturns(s, raised) ==
  /\ s \in DOMAIN task /\ task[s].pc = "format"
  /\ IF raised # None
     THEN Fail(s, raised[1])
     ELSE /\ sessions' = update(sessions, s, "generating_output", 85,
                                "Gerando PDF...")
          /\ Await(s, "pdf")
  /\ UNCHANGED << files, watchers, resp, agents >>

\* Mutant of PdfReturns: the files are saved after the try block, so a
\* failing write leaves the coroutine.
PdfReturns_WriteEscapes(s, raised, write_fountain, write_pdf) ==
  /\ s \in DOMAIN task /\ task[s].pc = "pdf"
  /\ IF raised # None
     THEN /\ Fail(s, raised[1])
          /\ UNCHANGED files
     ELSE IF write_fountain # None
     THEN /\ task' = [ task EXCEPT ![s] =
                         [ pc |-> "raised", raised |-> write_fountain ] ]
          /\ UNCHANGED << sessions, files >>
     ELSE IF write_pdf # None
     THEN /\ task' = [ task EXCEPT ![s] =
                         [ pc |-> "raised", raised |-> write_pdf ] ]
          /\ files' = files \cup { OutputPath(s, "fountain") }
          /\ UNCHANGED sessions
     ELSE /\ files' = files \cup { OutputPath(s, "fountain"), OutputPath(s, "pdf") }
          /\ sessions' = MarkDone(sessions, s, OutputPath(s, "fountain"),
                                  OutputPath(s, "pdf"))
          /\ Await(s, "returned")
  /\ UNCHANGED << watchers, resp, agents >>

\* format_pdf returns or raises; on return the two files are written, the
\* fountain file first, and either write may raise; then the session is
\* marked done and the coroutine returns.
PdfReturns(s, raised, write_fountain, write_pdf) ==
  /\ s \in DOMAIN task /\ task[s].pc = "pdf"
  /\ IF raised # None
     THEN /\ Fail(s, raised[1])
          /\ UNCHANGED files
     ELSE IF write_fountain # None
     THEN /\ Fail(s, write_fountain[1])
          /\ UNCHANGED files
     ELSE IF write_pdf # None
     THEN /\ Fail(s, write_pdf[1])
          /\ files' = files \cup { OutputPath(s, "fountain") }
     ELSE /\ files' = files \cup { OutputPath(s, "fountain"), OutputPath(s, "pdf") }
          /\ sessions' = MarkDone(sessions, s, OutputPath(s, "fountain"),
                                  OutputPath(s, "pdf"))
          /\ Await(s, "returned")
  /\ UNCHANGED << watchers, resp, agents >>

----------------------------------------------------------------------------
(* GET /progress/{session_id} and its event_stream generator.  watchers[w] *)
(* holds the generator's locals and where it is suspended: "idle" no       *)
(* request yet, "rejected" answered 404, "start" not yet iterated,         *)
(* "yielded" suspended at the yield, "sleeping" at asyncio.sleep(1),       *)
(* "ended" after a break.  emitted is what it has yielded so far.          *)

\* Mutant of StreamEnds: the loop breaks on done alone.
StreamEnds_DoneOnly(current_stage) == current_stage = "done"

\* The stages at which event_stream breaks out of its loop.
StreamEnds(current_stage) == current_stage \in {"done", "error"}

\* The fields of the session that go into one data: line.
Notification(session) ==
  [ stage |-> session.stage, progress |-> session.progress,
    message |-> session.message ]

\* The handler: 404 for an identifier not in the table, else the stream.
progress(w, session_id) ==
  /\ watchers[w].pc = "idle"
  /\ watchers' = [ watchers EXCEPT ![w] =
       IF session_id \notin DOMAIN sessions
       THEN [ @ EXCEPT !.pc = "rejected", !.sid = session_id ]
       ELSE [ @ EXCEPT !.pc = "start", !.sid = session_id ] ]
  /\ UNCHANGED << sessions, task, files, resp, agents >>

\* One pass of the loop body from its top (at the start, or when the sleep
\* is over) to the next suspension: the yield when the stage has changed,
\* else the break or the sleep.
WatcherSample(w) ==
  /\ watchers[w].pc \in {"start", "sleeping"}
  /\ LET me == watchers[w]
     IN  watchers' = [ watchers EXCEPT ![w] =
           IF me.sid \notin DOMAIN sessions
           THEN [ me EXCEPT !.pc = "ended" ]
           ELSE LET session == sessions[me.sid]
                    current_stage == session.stage
                IN  IF Some(current_stage) # me.last_stage
                    THEN [ me EXCEPT !.pc = "yielded",
                                     !.current_stage = Some(current_stage),
                                     !.emitted = Append(@, Notification(session)) ]
                    ELSE [ me EXCEPT !.pc = IF StreamEnds(current_stage)
                                            THEN "ended" ELSE "sleeping",
                                     !.current_stage = Some(current_stage) ] ]
  /\ UNCHANGED << sessions, task, files, resp, agents >>

\* Mutant of WatcherResume: last_stage is not assigned after the yield.
WatcherResume_KeepsLastStage(w) ==
  /\ watchers[w].pc = "yielded"
  /\ LET me == watchers[w]
     IN  watchers' = [ watchers EXCEPT ![w] =
           [ me EXCEPT !.pc = IF StreamEnds(me.current_stage[1])
                              THEN "ended" ELSE "sleeping" ] ]
  /\ UNCHANGED << sessions, task, files, resp, agents >>

\* The generator is resumed after the yield: it records the stage it sent,
\* then breaks or sleeps.
WatcherResume(w) ==
  /\ watchers[w].pc = "yielded"
  /\ LET me == watchers[w]
     IN  watchers' = [ watchers EXCEPT ![w] =
           [ me EXCEPT !.last_stage = me.current_stage,
                       !.pc = IF StreamEnds(me.current_stage[1])
                              THEN "ended" ELSE "sleeping" ] ]
  /\ UNCHANGED << sessions, task, files, resp, agents >>

----------------------------------------------------------------------------
(* GET /debug/{session_id} and GET /download/{session_id}/{format}.        *)

\* sessions.get(session_id, {"error": ...}): always answered 200; body is
\* the session record when there is one.
debug(session_id) ==
  /\ resp' = Response("debug", session_id, "", 200, None)
  /\ UNCHANGED << sessions, task, files, watchers, agents >>

\* Mutant of DownloadResponse: the two branches read each other's path.
DownloadResponse_SwapsPaths(tbl, fs, session_id, format) ==
  IF session_id \notin DOMAIN tbl
  THEN Response("download", session_id, format, 404, None)
  ELSE LET session == tbl[session_id]
           path == IF format = "fountain" THEN session.pdf_path
                   ELSE session.fountain_path
       IN  IF session.stage # "done"
           THEN Response("download", session_id, format, 400, None)
           ELSE IF format \notin {"fountain", "pdf"}
           THEN Response("download", session_id, format, 400, None)
           ELSE IF path = None \/ path[1] \notin fs
           THEN Response("download", session_id, format, 404, None)
           ELSE Response("download", session_id, format, 200, path)

\* What download answers for the table tbl and the files fs.
DownloadResponse(tbl, fs, session_id, format) ==
  IF session_id \notin DOMAIN tbl
  THEN Response("download", session_id, format, 404, None)
  ELSE LET session == tbl[session_id]
           path == IF format = "fountain" THEN session.fountain_path
                   ELSE session.pdf_path
       IN  IF session.stage # "done"
           THEN Response("download", session_id, format, 400, None)
           ELSE IF format \notin {"fountain", "pdf"}
           THEN Response("download", session_id, format, 400, None)
           ELSE IF path = None \/ path[1] \notin fs
           THEN Response("download", session_id, format, 404, None)
           ELSE Response("download", session_id, format, 200, path)

download(session_id, format) ==
  /\ resp' = DownloadResponse(sessions, files, session_id, format)
  /\ UNCHANGED << sessions, task, files, watchers, agents >>

----------------------------------------------------------------------------
Submit ==
  \E is_fountain \in BOOLEAN, decodes \in BOOLEAN :
    translate(is_fountain, decodes)

PipelineStep ==
  \/ \E s \in SessionIds : PipelineStart(s)
  \/ \E s \in SessionIds, raised \in Raises : ParseReturns(s, raised)
  \/ \E s \in SessionIds, raised \in Raises : TranslateReturns(s, raised)
  \/ \E s \in SessionIds, raised \in Raises : FormatReturns(s, raised)
  \/ \E s \in SessionIds, raised \in Raises, wf \in Raises, wp \in Raises :
       PdfReturns(s, raised, wf, wp)

WatchStep ==
  \/ \E w \in WatcherIds, session_id \in RequestIds : progress(w, session_id)
  \/ \E w \in WatcherIds : WatcherSample(w)
  \/ \E w \in WatcherIds : WatcherResume(w)

Request ==
  \/ \E session_id \in RequestIds : debug(session_id)
  \/ \E session_id \in RequestIds, format \in Formats :
       download(session_id, format)

\* Up to MaxJobs concurrent jobs and the requests that read their sessions.
Next == Submit \/ PipelineStep \/ Request

Spec == Init /\ [][Next]_vars

\* One job and up to MaxWatchers progress streams.  A stream reads only the
\* session it was opened for, so one job is followed.
WatchNext ==
  \/ (DOMAIN sessions = {} /\ Submit)
  \/ PipelineStep
  \/ WatchStep

WatchSpec == Init /\ [][WatchNext]_vars

\* The event loop resumes a generator whose consumer asks for the next item
\* and wakes a coroutine whose sleep is over.
FairWatchSpec ==
  /\ WatchSpec
  /\ \A w \in WatcherIds : WF_vars(WatcherSample(w)) /\ WF_vars(WatcherResume(w))

----------------------------------------------------------------------------
(* The stage order and progress schedule the properties are stated with.   *)

StageOrder == << "queued", "parsing", "translating", "formatting",
                 "generating_output", "done" >>
TerminalStages == {"done", "error"}

\* The position of a stage other than error in the order of normal progress.
Rank(stage) == CHOOSE i \in 1 .. Len(StageOrder) : StageOrder[i] = stage

\* The fixed schedule of progress values.
Schedule(stage) ==
  CASE stage = "queued" -> 0
    [] stage = "parsing" -> 10
    [] stage = "translating" -> 40
    [] stage = "formatting" -> 70
    [] stage = "generating_output" -> 85
    [] stage = "done" -> 100
    [] stage = "error" -> 0

\* The message each stage is written with.
StageMessage(stage) ==
  CASE stage = "queued" -> "Na fila..."
    [] stage = "parsing" -> "Analisando o roteiro..."
    [] stage = "translating" -> "Traduzindo para português brasileiro..."
    [] stage = "formatting" -> "Reconstruindo o roteiro em Fountain..."
    [] stage = "generating_output" -> "Gerando PDF..."
    [] stage = "done" -> "Tradução concluída!"
    [] stage = "error" -> "Erro durante a tradução."

StagesOf(emitted) == [ i \in 1 .. Len(emitted) |-> emitted[i].stage ]

----------------------------------------------------------------------------
\* What one step may do to the stage of session s.
C1_StageStep(s) ==
  /\ (s \notin DOMAIN sessions /\ s \in DOMAIN sessions')
       => sessions'[s].stage = "queued"
  /\ (s \in DOMAIN sessions /\ s \in DOMAIN sessions'
        /\ sessions'[s].stage # sessions[s].stage)
       => \/ sessions'[s].stage = "error"
          \/ /\ sessions[s].stage \notin TerminalStages
             /\ sessions'[s].stage = StageOrder[Rank(sessions[s].stage) + 1]
  /\ (s \in DOMAIN task /\ task'[s] # task[s])
       => sessions'[s].stage # sessions[s].stage

\* C1: a session record is created with stage queued, and every later change
\* of its stage goes to the immediate successor in the order queued, parsing,
\* translating, formatting, generating_output, done, or to error; every step
\* of the pipeline moves the stage, so none is written twice.
C1_StageOrder == [][\A s \in SessionIds : C1_StageStep(s)]_vars

\* One job has gone through every stage to done while another ended in error.
C1_Witness ==
  \E s, t \in DOMAIN sessions :
    sessions[s].stage = "done" /\ sessions[t].stage = "error"

C3_ProgressMatchesStage ==
  /\ \A s \in DOMAIN sessions :
       sessions[s].progress = Schedule(sessions[s].stage)
  /\ \A w \in WatcherIds : \A i \in 1 .. Len(watchers[w].emitted) :
       LET n == watchers[w].emitted[i]
       IN  /\ n.stage \in Stages
           /\ n.progress = Schedule(n.stage)
           /\ n.message = StageMessage(n.stage)

\* A stream has notified of a stage in mid-pipeline and the session has since
\* moved on.
C3_Witness ==
  \E w \in WatcherIds :
    /\ Len(watchers[w].emitted) >= 2
    /\ watchers[w].emitted[Len(watchers[w].emitted)].stage = "formatting"
    /\ sessions[watchers[w].sid].stage = "generating_output"

\* C4: the stages a stream has emitted follow the order queued, parsing,
\* translating, formatting, generating_output, done, possibly with stages
\* left out, and error occurs in it only as the last one.
C4_WatcherOrder ==
  \A w \in WatcherIds :
    LET st == StagesOf(watchers[w].emitted)
    IN  \A i, j \in 1 .. Len(st) :
          i < j => /\ st[i] # "error"
                   /\ st[j] # "error" => Rank(st[i]) < Rank(st[j])

\* A stream opened at submission has missed stages and ended with done.
C4_Witness ==
  \E w \in WatcherIds :
    StagesOf(watchers[w].emitted) = << "queued", "translating", "done" >>

\* Progress across one step, in the records and in what the streams emitted.
C5_ProgressStep ==
  /\ \A s \in DOMAIN sessions :
       sessions'[s].stage # "error"
         => sessions'[s].progress >= sessions[s].progress
  /\ \A w \in WatcherIds :
       LET e == watchers'[w].emitted
       IN  \A i, j \in 1 .. Len(e) :
             (i < j /\ e[j].stage # "error") => e[i].progress <= e[j].progress

\* C5: no step lowers a session's progress unless it is the step to error,
\* and the progress values a stream has emitted never decrease from one
\* notification to a later one other than the notification of error.
C5_ProgressMonotone == [][C5_ProgressStep]_vars

\* A stream has seen the progress rise and then fall to 0 with the error.
C5_Witness ==
  \E w \in WatcherIds :
    LET e == watchers[w].emitted
    IN  /\ Len(e) >= 3
        /\ e[Len(e)].stage = "error"
        /\ e[Len(e) - 1].progress >= 40
        /\ e[1].progress < e[Len(e) - 1].progress

\* What stream w has emitted, and where it stands if it has ended.
C6_StreamState(w) ==
  LET me == watchers[w]
      e == me.emitted
  IN  /\ \A i \in 1 .. Len(e) : e[i].stage \in TerminalStages => i = Len(e)
      /\ \A i \in 1 .. Len(e) - 1 : e[i].stage # e[i + 1].stage
      /\ me.pc = "ended"
           => /\ Len(e) >= 1
              /\ e[Len(e)].stage \in TerminalStages
              /\ me.current_stage = Some(e[Len(e)].stage)

\* A step in which stream w emits.
C6_StreamStep(w) ==
  LET me == watchers[w]
      e == me.emitted
  IN  watchers'[w].emitted # e
        => /\ me.sid \in DOMAIN sessions
           /\ Len(e) > 0 => e[Len(e)].stage # sessions[me.sid].stage
           /\ watchers'[w].emitted = Append(e, Notification(sessions[me.sid]))

\* Stream w is open and its session has reached a terminal stage.
C6_StreamOpenOnTerminal(w) ==
  /\ watchers[w].pc \in {"start", "yielded", "sleeping"}
  /\ sessions[watchers[w].sid].stage \in TerminalStages

\* C6: every stream open on a session whose stage is done or error ends; the
\* notification of the terminal stage is the last it emits; it ends only
\* after sampling a terminal stage; and it emits only when the sampled stage
\* differs from the one it emitted last.
C6_StreamEnds ==
  /\ [](\A w \in WatcherIds : C6_StreamState(w))
  /\ [][\A w \in WatcherIds : C6_StreamStep(w)]_vars
  /\ \A w \in WatcherIds :
       C6_StreamOpenOnTerminal(w) ~> (watchers[w].pc = "ended")

\* A stream opened after the job was done has emitted that one notification
\* and ended.
C6_Witness ==
  \E w \in WatcherIds :
    /\ watchers[w].pc = "ended"
    /\ StagesOf(watchers[w].emitted) = << "done" >>

\* The task of job s after an exception in the try block.
C7_FailureRecorded(s) ==
  /\ task[s].pc # "raised"
  /\ task[s].raised # None
       => /\ task[s].pc = "returned"
          /\ sessions[s].stage = "error"
          /\ sessions[s].progress = 0
          /\ sessions[s].error # None

\* A task that has returned does nothing more.
C7_NoStepAfterReturn(s) ==
  task[s].pc = "returned"
    => /\ s \in DOMAIN task' /\ task'[s] = task[s]
       /\ s \in DOMAIN sessions' /\ sessions'[s] = sessions[s]

\* C7: a step that raises leaves the session with stage error, progress 0
\* and an error text, and the task returned; no exception leaves the task;
\* and a task that has returned takes no further step on its session.
C7_FailureCaught ==
  /\ [](\A s \in DOMAIN task : C7_FailureRecorded(s))
  /\ [][\A s \in DOMAIN task : C7_NoStepAfterReturn(s)]_vars

\* Saving the artifacts failed at the second file: the fountain file is on
\* disk, the pdf is not, and the job is in error.
C7_Witness ==
  \E s \in DOMAIN task :
    /\ task[s].raised # None
    /\ sessions[s].stage = "error"
    /\ OutputPath(s, "fountain") \in files
    /\ OutputPath(s, "pdf") \notin files

\* The requests a file may be served for.
C8_Eligible(session_id, format) ==
  /\ session_id \in DOMAIN sessions
  /\ sessions[session_id].stage = "done"
  /\ format \in {"fountain", "pdf"}

\* A step that answers a download request.
C8_DownloadStep ==
  (resp' # resp /\ resp'.op = "download")
    => /\ sessions' = sessions
       /\ resp'.status = 200
            => /\ C8_Eligible(resp'.sid, resp'.format)
               /\ resp'.file # None
               /\ resp'.file = IF resp'.format = "fountain"
                               THEN sessions[resp'.sid].fountain_path
                               ELSE sessions[resp'.sid].pdf_path
       /\ ~C8_Eligible(resp'.sid, resp'.format) => resp'.status # 200
       /\ resp'.status # 200 => resp'.status >= 400 /\ resp'.file = None

\* C8: a download is answered with a file only for an identifier in the
\* table whose stage is done and a kind of fountain or pdf, and the file is
\* the one recorded for that kind; any other request is answered with an
\* error and no file; a download leaves the session table as it was.
C8_Download == [][C8_DownloadStep]_vars

\* The pdf of a finished job has been served.
C8_Witness ==
  /\ resp.op = "download" /\ resp.status = 200 /\ resp.format = "pdf"
  /\ resp.file = Some(OutputPath(resp.sid, "pdf"))

\* C9: the artifact locations are null unless the stage is done; when it is
\* done both are set and both files are on disk; the error field is set only
\* when the stage is error.
C9_ArtifactFields ==
  \A s \in DOMAIN sessions :
    LET session == sessions[s]
    IN  /\ session.stage # "done"
          => session.fountain_path = None /\ session.pdf_path = None
        /\ session.stage = "done"
          => /\ session.fountain_path # None /\ session.pdf_path # None
             /\ session.fountain_path[1] \in files
             /\ session.pdf_path[1] \in files
        /\ session.error # None => session.stage = "error"

\* One job is done with both locations set; another failed after its
\* fountain file was written and has no location set.
C9_Witness ==
  \E s, t \in DOMAIN sessions :
    /\ sessions[s].stage = "done"
    /\ sessions[s].pdf_path = Some(OutputPath(s, "pdf"))
    /\ sessions[t].stage = "error"
    /\ OutputPath(t, "fountain") \in files

\* The session table across one step.
C10_Step ==
  /\ DOMAIN sessions \subseteq DOMAIN sessions'
  /\ \A s \in DOMAIN task :
       task'[s] # task[s]
         => \A t \in DOMAIN sessions \ {s} : sessions'[t] = sessions[t]
  /\ \A s \in DOMAIN sessions :
       sessions'[s] # sessions[s] => task'[s] # task[s]

\* C10: a step of one job's pipeline leaves every other session record as it
\* was, a record changes only in a step of its own job's pipeline, and no
\* record leaves the table.
C10_OwnSessionOnly == [][C10_Step]_vars

\* Two jobs are in mid-pipeline at different stages.
C10_Witness ==
  \E s, t \in DOMAIN sessions :
    sessions[s].stage = "formatting" /\ sessions[t].stage = "parsing"

----------------------------------------------------------------------------
(* The agent functions.  Each is followed through one call: the call's     *)
(* input is drawn from a bounded set, its locals are the fields of the     *)
(* agent's record, and "returned" is the state its caller sees.  The sizes  *)
(* the code fixes in module constants are arguments of the operators, so   *)
(* that small inputs reach the cases a limit of 8000 characters or 30      *)
(* elements decides.                                                       *)

MaxTextLen == 4
MaxLimit == 2

\* parser.py: PARSER_CHUNK_SIZE
PARSER_CHUNK_SIZE == 8000

\* The characters of a raw text: an ordinary character and the two line
\* boundaries a Fountain file carries.
Chars == {"a", "\n", "\r"}

Texts == UNION { [1..n -> Chars] : n \in 0..MaxTextLen }

ParserLimits == (1..MaxLimit) \cup {PARSER_CHUNK_SIZE}

\* str.splitlines: a line ends after "\n", after "\r\n", and after a "\r"
\* that no "\n" follows.
IsLineEnd(text, i) ==
  \/ text[i] = "\n"
  \/ text[i] = "\r" /\ ~(i < Len(text) /\ text[i + 1] = "\n")

\* raw_text.splitlines(keepends=True): the lines of the text, each with its
\* line boundary; a last line without boundary is a line too.
RECURSIVE splitlines(_)
splitlines(text) ==
  IF text = << >>
  THEN << >>
  ELSE LET ends == { i \in 1..Len(text) : IsLineEnd(text, i) }
           e == IF ends = {}
                THEN Len(text)
                ELSE CHOOSE i \in ends : \A j \in ends : i <= j
       IN << SubSeq(text, 1, e) >> \o splitlines(SubSeq(text, e + 1, Len(text)))

\* Mutant of LineChunks: the line that closes a chunk is not carried into
\* the next one.
RECURSIVE LineChunks_DropsOverflowLine(_, _, _, _, _)
LineChunks_DropsOverflowLine(lines, i, chunks, current_chunk, limit) ==
  IF i > Len(lines)
  THEN IF current_chunk # << >> THEN Append(chunks, current_chunk) ELSE chunks
  ELSE IF Len(current_chunk) + Len(lines[i]) > limit /\ current_chunk # << >>
       THEN LineChunks_DropsOverflowLine(lines, i + 1,
                                         Append(chunks, current_chunk),
                                         << >>, limit)
       ELSE LineChunks_DropsOverflowLine(lines, i + 1, chunks,
                                         current_chunk \o lines[i], limit)

\* Mutant of LineChunks: a chunk is closed without the test that it is
\* non-empty.
RECURSIVE LineChunks_ClosesEmptyChunk(_, _, _, _, _)
LineChunks_ClosesEmptyChunk(lines, i, chunks, current_chunk, limit) ==
  IF i > Len(lines)
  THEN IF current_chunk # << >> THEN Append(chunks, current_chunk) ELSE chunks
  ELSE IF Len(current_chunk) + Len(lines[i]) > limit
       THEN LineChunks_ClosesEmptyChunk(lines, i + 1,
                                        Append(chunks, current_chunk),
                                        lines[i], limit)
       ELSE LineChunks_ClosesEmptyChunk(lines, i + 1, chunks,
                                        current_chunk \o lines[i], limit)

\* The loop of parse_fountain over the lines from line i on, with the chunks
\* closed so far and the chunk being filled, and the closing test after it.
RECURSIVE LineChunks(_, _, _, _, _)
LineChunks(lines, i, chunks, current_chunk, limit) ==
  IF i > Len(lines)
  THEN IF current_chunk # << >> THEN Append(chunks, current_chunk) ELSE chunks
  ELSE IF Len(current_chunk) + Len(lines[i]) > limit /\ current_chunk # << >>
       THEN LineChunks(lines, i + 1, Append(chunks, current_chunk),
                       lines[i], limit)
       ELSE LineChunks(lines, i + 1, chunks, current_chunk \o lines[i], limit)

\* parse_fountain is called with a raw text.
ParserCalled(raw_text, limit) ==
  [ pc |-> "called", raw_text |-> raw_text, limit |-> limit ]

\* parse_fountain, lines 78-88: the text is cut into chunks of whole lines.
ParserSplit ==
  /\ parser.pc = "called"
  /\ parser' = [ pc |-> "chunked",
                 raw_text |-> parser.raw_text,
                 limit |-> parser.limit,
                 chunks |-> LineChunks(splitlines(parser.raw_text), 1,
                                       << >>, << >>, parser.limit),
                 i |-> 1,
                 id_offset |-> 1,
                 all_elements |-> << >> ]
  /\ UNCHANGED << server, translator, reassembler, pdf >>

\* The element the parsing service returns for a chunk it reads as one
\* action, numbered from id_offset as the prompt asks.
ParsedElement(chunk, id_offset) ==
  [ id |-> id_offset, type |-> "action", original |-> chunk,
    translated |-> None, translate |-> TRUE ]

\* parse_fountain, lines 95-109: parse_chunk returns the elements of the
\* next chunk (here none or one), which are appended with translated unset.
ParseChunkReturns(n) ==
  /\ parser.pc = "chunked"
  /\ parser.i <= Len(parser.chunks)
  /\ parser' = [ parser EXCEPT
       !.i = @ + 1,
       !.id_offset = @ + n,
       !.all_elements =
          IF n = 0 THEN @
          ELSE Append(@, ParsedElement(parser.chunks[parser.i],
                                       parser.id_offset)) ]
  /\ UNCHANGED << server, translator, reassembler, pdf >>

\* parse_fountain, lines 111-119: the document is returned.
ParserReturns ==
  /\ parser.pc = "chunked"
  /\ parser.i > Len(parser.chunks)
  /\ parser' = [ parser EXCEPT !.pc = "returned" ]
  /\ UNCHANGED << server, translator, reassembler, pdf >>

ParserStep ==
  \/ ParserSplit
  \/ \E n \in 0..1 : ParseChunkReturns(n)
  \/ ParserReturns

----------------------------------------------------------------------------
(* translate_screenplay.                                                   *)

MaxElements == 5
MaxChunk == 2
MaxCount == 1

\* translator.py: CHUNK_SIZE
CHUNK_SIZE == 30

\* translator.py: the number of elements looked at before and after a chunk
CONTEXT_COUNT == 20

ChunkSizes == (1..MaxChunk) \cup {CHUNK_SIZE}

ContextCounts == (1..MaxCount) \cup {CONTEXT_COUNT}

Min(a, b) == IF a <= b THEN a ELSE b

Max(a, b) == IF a >= b THEN a ELSE b

\* schemas.py: a ScreenplayElement as parse_fountain builds it.  Identifiers
\* are the positions, hence unique; dialogue is what the parser marks for
\* translation and a character name is what it does not.
Element(i, flag) ==
  [ id |-> i,
    type |-> IF flag THEN "dialogue" ELSE "character",
    original |-> << "original", i >>,
    translated |-> None,
    translate |-> flag ]

\* The documents a call can receive: every choice of the translate flags of
\* up to MaxElements elements.
Documents ==
  UNION { { [ i \in 1..n |-> Element(i, flags[i]) ] :
              flags \in [1..n -> BOOLEAN] } : n \in 0..MaxElements }

LongDocumentLen == 43

\* A document longer than CHUNK_SIZE + 2 * CONTEXT_COUNT in which only the
\* first and the last element are eligible.
LongDocument ==
  [ i \in 1..LongDocumentLen |-> Element(i, i \in {1, LongDocumentLen}) ]

\* The text the translation service gives back for an identifier.
TranslatedText(id) == << "translated", id >>

IsEligible(el) == el.translate

\* Lines 27-30: the slices [i : i + chunk_size] for i = 0, chunk_size, ...
ElementChunks(elements_to_translate, chunk_size) ==
  [ k \in 1..((Len(elements_to_translate) + chunk_size - 1) \div chunk_size) |->
      SubSeq(elements_to_translate, (k - 1) * chunk_size + 1,
             Min(k * chunk_size, Len(elements_to_translate))) ]

\* list.index: the 0-based position of the first element equal to el.
index(elements, el) ==
  (CHOOSE i \in 1..Len(elements) :
     elements[i] = el /\ \A j \in 1..(i - 1) : elements[j] # el) - 1

\* Mutant of ContextWindow: the bounds are not clamped to the document.
ContextWindow_NoClamp(elements, chunk, count) ==
  LET chunk_start_index == index(elements, chunk[1])
      chunk_end_index == index(elements, chunk[Len(chunk)])
      context_start == chunk_start_index - count
      context_end == chunk_end_index + count
  IN [ chunk_start_index |-> chunk_start_index,
       chunk_end_index |-> chunk_end_index,
       context_start |-> context_start,
       context_end |-> context_end,
       context_window |->
         [ k \in 1..(context_end - context_start) |->
             IF context_start + k \in 1..Len(elements)
             THEN elements[context_start + k]
             ELSE elements[1] ] ]

\* Mutant of ContextWindow: the slice takes in the position context_end.
ContextWindow_InclusiveEnd(elements, chunk, count) ==
  LET chunk_start_index == index(elements, chunk[1])
      chunk_end_index == index(elements, chunk[Len(chunk)])
      context_start == Max(0, chunk_start_index - count)
      context_end == Min(Len(elements), chunk_end_index + count + 1)
  IN [ chunk_start_index |-> chunk_start_index,
       chunk_end_index |-> chunk_end_index,
       context_start |-> context_start,
       context_end |-> context_end,
       context_window |-> SubSeq(elements, context_start + 1, context_end) ]

\* Lines 38-43: the context window of a chunk; elements[a:b] is the slice
\* from the 0-based position a up to and without position b.
ContextWindow(elements, chunk, count) ==
  LET chunk_start_index == index(elements, chunk[1])
      chunk_end_index == index(elements, chunk[Len(chunk)])
      context_start == Max(0, chunk_start_index - count)
      context_end == Min(Len(elements), chunk_end_index + count)
  IN [ chunk_start_index |-> chunk_start_index,
       chunk_end_index |-> chunk_end_index,
       context_start |-> context_start,
       context_end |-> context_end,
       context_window |-> SubSeq(elements, context_start + 1, context_end) ]

\* Lines 100-101: the pairs of one answer are written into translation_map.
MapUpdate(translation_map, ids) ==
  [ id \in DOMAIN translation_map \cup ids |->
      IF id \in ids THEN TranslatedText(id) ELSE translation_map[id] ]

\* Lines 104-108: the loop that fills the translated fields.
Fill(elements, translation_map) ==
  [ i \in DOMAIN elements |->
      IF elements[i].translate /\ elements[i].id \in DOMAIN translation_map
      THEN [ elements[i] EXCEPT
               !.translated = Some(translation_map[elements[i].id]) ]
      ELSE IF ~elements[i].translate
           THEN [ elements[i] EXCEPT !.translated = Some(elements[i].original) ]
           ELSE elements[i] ]

\* translate_screenplay is called with a parsed document.
TranslatorCalled(elements, chunk_size, count) ==
  [ pc |-> "called", elements |-> elements,
    chunk_size |-> chunk_size, count |-> count ]

\* Lines 21-32: the eligible elements are selected; with none the document
\* is returned as it came, otherwise they are cut into chunks.
TranslatorStart ==
  /\ translator.pc = "called"
  /\ LET elements_to_translate == SelectSeq(translator.elements, IsEligible)
     IN translator' =
          IF elements_to_translate = << >>
          THEN [ pc |-> "returned",
                 elements |-> translator.elements,
                 chunk_size |-> translator.chunk_size,
                 count |-> translator.count,
                 elements_to_translate |-> elements_to_translate ]
          ELSE [ pc |-> "loop",
                 elements |-> translator.elements,
                 chunk_size |-> translator.chunk_size,
                 count |-> translator.count,
                 elements_to_translate |-> elements_to_translate,
                 chunks |-> ElementChunks(elements_to_translate,
                                          translator.chunk_size),
                 i |-> 1,
                 context |-> None,
                 translation_map |-> << >> ]
  /\ UNCHANGED << server, parser, reassembler, pdf >>

\* Lines 34-101, one turn of the loop: the window of the chunk is computed,
\* the service answers with pairs for the identifiers ids, and the pairs go
\* into translation_map.
TranslateChunk(ids) ==
  /\ translator.pc = "loop"
  /\ translator.i <= Len(translator.chunks)
  /\ ids \subseteq { translator.chunks[translator.i][k].id :
                       k \in 1..Len(translator.chunks[translator.i]) }
  /\ translator' = [ translator EXCEPT
       !.i = @ + 1,
       !.context = Some(ContextWindow(translator.elements,
                                      translator.chunks[translator.i],
                                      translator.count)),
       !.translation_map = MapUpdate(@, ids) ]
  /\ UNCHANGED << server, parser, reassembler, pdf >>

\* Lines 88-99: the call of the service or json.loads raises, and the
\* exception leaves translate_screenplay.
TranslatorRaises ==
  /\ translator.pc = "loop"
  /\ translator.i <= Len(translator.chunks)
  /\ translator' = [ translator EXCEPT !.pc = "raised" ]
  /\ UNCHANGED << server, parser, reassembler, pdf >>

\* Lines 104-110: after the last chunk the translated fields are filled and
\* the document is returned.
TranslatorFill ==
  /\ translator.pc = "loop"
  /\ translator.i > Len(translator.chunks)
  /\ translator' = [ translator EXCEPT
       !.pc = "returned",
       !.elements = Fill(@, translator.translation_map) ]
  /\ UNCHANGED << server, parser, reassembler, pdf >>

TranslatorStep ==
  \/ TranslatorStart
  \/ \E ids \in SUBSET (1..MaxElements) : TranslateChunk(ids)
  \/ TranslatorRaises
  \/ TranslatorFill

----------------------------------------------------------------------------
(* format_pdf.  Lengths are in tenths of a point, so that the width of a   *)
(* Courier character at 12 points, 7.2 points, is a whole number.          *)

MaxWords == 2
MaxBelow == 2

\* reportlab.lib.units.inch, 72 points
inch == 720

\* reportlab.lib.pagesizes.letter, 612 by 792 points
PageWidth == 6120

PageHeight == 7920

\* Courier is monospaced, 600/1000 em wide: 7.2 points at 12 points.
CharWidth == 72

left_margin == (3 * inch) \div 2

right_margin == PageWidth - inch

top_margin == PageHeight - inch

bottom_margin == inch

usable_width == right_margin - left_margin

line_height == 140

\* c.stringWidth(text, "Courier", 12) of a text of len characters.
stringWidth(len) == CharWidth * len

\* The lengths of the words: with a word of 30 characters a word of 29 fills
\* a line of 60 characters exactly, two words of 30 do not fit on one line,
\* and a word of 61 is alone wider than the usable width.
WordLens == {29, 30, 61}

\* The whitespace characters between the words of a line beyond one per
\* gap: none, or one.
ExtraSpaces == {0, 1}

\* A word is known by its length and by what the tests of format_pdf look
\* at: "plain" has a lower-case letter ("hello"), "CAPS" is capital letters
\* only ("JOHN"), "INT." begins with INT. or EXT., "(" begins with an opening
\* parenthesis, ")" ends with a closing one, "TO:" ends with TO:, "===" is
\* the page-break marker.
Words ==
  { [ shape |-> "plain", len |-> n ] : n \in WordLens }
    \cup { [ shape |-> "CAPS", len |-> 30 ], [ shape |-> "INT.", len |-> 4 ],
           [ shape |-> "(", len |-> 30 ], [ shape |-> ")", len |-> 30 ],
           [ shape |-> "TO:", len |-> 3 ], [ shape |-> "===", len |-> 3 ] }

\* A line after strip(): its words and the number of whitespace characters
\* between them beyond one per gap.  The line without words is the blank
\* line.
StrippedLines ==
  { [ words |-> ws, extra |-> x ] :
      ws \in UNION { [1..n -> Words] : n \in 0..MaxWords }, x \in ExtraSpaces }

Lines == { line \in StrippedLines : Len(line.words) < 2 => line.extra = 0 }

RECURSIVE SumLens(_)
SumLens(words) ==
  IF words = << >> THEN 0 ELSE Head(words).len + SumLens(Tail(words))

\* len(" ".join(words))
JoinedLen(words) ==
  IF words = << >> THEN 0 ELSE SumLens(words) + Len(words) - 1

\* len(stripped)
LineLen(line) == JoinedLen(line.words) + line.extra

\* The text of a line as it is, and of a line built from words.
TextOf(line) == [ words |-> line.words, extra |-> line.extra, upper |-> FALSE ]

\* stripped.upper()
Upper(line) == [ words |-> line.words, extra |-> line.extra, upper |-> TRUE ]

\* " ".join(words)
Joined(words) == [ words |-> words, extra |-> 0, upper |-> FALSE ]

\* Line 89: not stripped
IsBlank(line) == line.words = << >>

\* Line 94: re.match(r"^(INT\.|EXT\.|INT\./EXT\.)", stripped)
IsSceneHeading(line) == line.words[1].shape = "INT."

\* Line 100: re.match(r"^[A-Z][A-Z\s]+$", stripped) and len(stripped) < 40
IsCharacter(line) ==
  /\ \A k \in 1..Len(line.words) : line.words[k].shape = "CAPS"
  /\ LineLen(line) >= 2
  /\ LineLen(line) < 40

\* Line 104: stripped.startswith("(") and stripped.endswith(")")
IsParenthetical(line) ==
  /\ line.words[1].shape = "("
  /\ line.words[Len(line.words)].shape = ")"

\* Line 108: re.match(r".+TO:$|^FADE (IN|OUT)\.$", stripped); no line of
\* Lines is FADE IN. or FADE OUT.
IsTransition(line) ==
  /\ line.words[Len(line.words)].shape = "TO:"
  /\ LineLen(line) >= 4

\* Line 113: stripped == "==="
IsPageBreak(line) ==
  /\ Len(line.words) = 1
  /\ line.words[1].shape = "==="

\* Mutant of write_line: the line is drawn without the test of the cursor.
write_line_NoNewPage(cursor, text, x) ==
  [ y |-> cursor.y - line_height,
    drawn |-> Append(cursor.drawn,
                     [ text |-> text,
                       x |-> IF x = 0 THEN left_margin ELSE x,
                       y |-> cursor.y,
                       new_page |-> FALSE ]) ]

\* Lines 67-78: write_line, with new_page.  cursor is the cursor y and the
\* lines drawn so far; x = 0 stands for the default, which `x or
\* left_margin` treats as it treats 0.
write_line(cursor, text, x) ==
  LET y == IF cursor.y < bottom_margin THEN top_margin ELSE cursor.y
  IN [ y |-> y - line_height,
       drawn |-> Append(cursor.drawn,
                        [ text |-> text,
                          x |-> IF x = 0 THEN left_margin ELSE x,
                          y |-> y,
                          new_page |-> cursor.y < bottom_margin ]) ]

\* Mutant of Wrap: every word is taken into the current line.
RECURSIVE Wrap_NeverBreaks(_, _, _, _)
Wrap_NeverBreaks(words, k, current_line, cursor) ==
  IF k > Len(words)
  THEN IF current_line # << >>
       THEN write_line(cursor, Joined(current_line), 0)
       ELSE cursor
  ELSE Wrap_NeverBreaks(words, k + 1, Append(current_line, words[k]), cursor)

\* Lines 118-128: the words from position k on are laid out, current_line
\* being the words of the line under construction.
RECURSIVE Wrap(_, _, _, _)
Wrap(words, k, current_line, cursor) ==
  IF k > Len(words)
  THEN IF current_line # << >>
       THEN write_line(cursor, Joined(current_line), 0)
       ELSE cursor
  ELSE LET test_line == Append(current_line, words[k])
       IN IF stringWidth(JoinedLen(test_line)) <= usable_width
          THEN Wrap(words, k + 1, test_line, cursor)
          ELSE Wrap(words, k + 1, << words[k] >>,
                    write_line(cursor, Joined(current_line), 0))

Down(cursor, dy) == [ cursor EXCEPT !.y = @ - dy ]

\* Lines 89-117: the tests on the stripped line, in the order of the code.
ShapeClass(line) ==
  IF IsBlank(line) THEN "blank"
  ELSE IF IsSceneHeading(line) THEN "scene_heading"
  ELSE IF IsCharacter(line) THEN "character"
  ELSE IF IsParenthetical(line) THEN "parenthetical"
  ELSE IF IsTransition(line) THEN "transition"
  ELSE IF IsPageBreak(line) THEN "page_break"
  ELSE "text"

\* Lines 87-128: the body of the loop for one line.
LayoutLine(cursor, line) ==
  LET class == ShapeClass(line)
  IN CASE class = "blank" ->
            Down(cursor, line_height \div 2)
       [] class = "scene_heading" ->
            Down(write_line(Down(cursor, line_height \div 2), Upper(line), 0),
                 line_height \div 2)
       [] class = "character" ->
            write_line(cursor, TextOf(line), (7 * inch) \div 2)
       [] class = "parenthetical" ->
            write_line(cursor, TextOf(line), 3 * inch)
       [] class = "transition" ->
            write_line(cursor, TextOf(line),
                       right_margin - stringWidth(LineLen(line)))
       [] class = "page_break" ->
            Down(cursor, line_height)
       [] class = "text" ->
            Wrap(line.words, 1, << >>, cursor)

\* Lines 52-84: the canvas is set up and the title drawn at the top margin.
PdfTitle ==
  /\ pdf.pc = "called"
  /\ pdf' = [ pc |-> "top", y |-> top_margin - 2 * line_height ]
  /\ UNCHANGED << server, parser, translator, reassembler >>

\* Lines 86-128: the loop takes the next line of fountain_text and lays it
\* out; drawn are the lines it puts on the canvas.  The cursor is followed
\* down to MaxBelow line heights under the bottom margin.
PdfLayoutLine(line) ==
  /\ pdf.pc = "top"
  /\ pdf.y >= bottom_margin - MaxBelow * line_height
  /\ LET cursor == LayoutLine([ y |-> pdf.y, drawn |-> << >> ], line)
     IN pdf' = [ pc |-> "laid", y |-> cursor.y, line |-> line,
                 drawn |-> cursor.drawn ]
  /\ UNCHANGED << server, parser, translator, reassembler >>

\* The end of the loop body: back to line 86.
PdfLoop ==
  /\ pdf.pc = "laid"
  /\ pdf' = [ pc |-> "top", y |-> pdf.y ]
  /\ UNCHANGED << server, parser, translator, reassembler >>

\* Lines 130-132: no line is left, the canvas is saved and its bytes are
\* returned.
PdfSave ==
  /\ pdf.pc = "top"
  /\ pdf' = [ pc |-> "returned", y |-> pdf.y ]
  /\ UNCHANGED << server, parser, translator, reassembler >>

PdfStep ==
  \/ PdfTitle
  \/ \E line \in Lines : PdfLayoutLine(line)
  \/ PdfLoop
  \/ PdfSave

----------------------------------------------------------------------------
(* format_fountain.  A text is a sequence of tokens, each a pair: the line *)
(* feed, a marker, or the original or translated text of an element.       *)

MaxReassembled == 2

\* schemas.py: ElementType
ElementTypes == {"scene_heading", "action", "character", "parenthetical",
                 "dialogue", "transition", "note", "page_break"}

LF == << "\n", 0 >>

Marker(m) == << m, 0 >>

\* str(None), what an f-string writes for a missing value.
NoneToken == << "None", 0 >>

\* parser.py, the translation rules of the prompt: the types marked for
\* translation.
TranslatableTypes == {"scene_heading", "action", "parenthetical", "dialogue"}

\* An element as translate_screenplay can hand it on: of a translatable type
\* and translated, or left without translation; of another type and copied,
\* or left untouched by the early return.
ReassemblerElements(i) ==
  { [ id |-> i, type |-> type, original |-> << "original", i >>,
      translated |-> IF ~filled THEN None
                     ELSE IF type \in TranslatableTypes
                          THEN Some(<< "translated", i >>)
                          ELSE Some(<< "original", i >>),
      translate |-> type \in TranslatableTypes ] :
      type \in ElementTypes, filled \in BOOLEAN }

\* The documents of n elements, the element at position i having id i.
RECURSIVE DocumentsOfLen(_)
DocumentsOfLen(n) ==
  IF n = 0
  THEN { << >> }
  ELSE { Append(elements, el) :
           elements \in DocumentsOfLen(n - 1), el \in ReassemblerElements(n) }

ReassemblerDocuments == UNION { DocumentsOfLen(n) : n \in 0..MaxReassembled }

\* Mutant of ElementText: a missing translation is written as it is.
ElementText_NoneToken(el) ==
  IF el.translated # None THEN el.translated[1] ELSE NoneToken

\* Line 17: the text of an element.
ElementText(el) ==
  IF el.translated # None THEN el.translated[1] ELSE el.original

\* Lines 19-41: what one element appends to lines.
Piece(el) ==
  LET text == ElementText(el)
  IN CASE el.type \in {"scene_heading", "action", "transition"} ->
            << LF, text, LF >>
       [] el.type = "character" -> << LF, text >>
       [] el.type = "parenthetical" -> << text >>
       [] el.type = "dialogue" -> << text, LF >>
       [] el.type = "note" -> << LF, Marker("[["), text, Marker("]]"), LF >>
       [] el.type = "page_break" -> << LF, Marker("==="), LF >>

\* Mutant of join: the entries are separated by an empty line.
RECURSIVE join_BlankLine(_)
join_BlankLine(lines) ==
  IF lines = << >> THEN << >>
  ELSE IF Len(lines) = 1 THEN lines[1]
  ELSE lines[1] \o << LF, LF >> \o join_BlankLine(Tail(lines))

\* "\n".join(lines)
RECURSIVE join(_)
join(lines) ==
  IF lines = << >> THEN << >>
  ELSE IF Len(lines) = 1 THEN lines[1]
  ELSE lines[1] \o << LF >> \o join(Tail(lines))

\* Lines 14-43.
format_fountain(elements) ==
  join([ k \in 1..Len(elements) |-> Piece(elements[k]) ])

ReassemblerCalled(elements) == [ pc |-> "called", elements |-> elements ]

\* format_fountain runs from its call to its return.
ReassemblerFormat ==
  /\ reassembler.pc = "called"
  /\ reassembler' = [ pc |-> "returned",
                      elements |-> reassembler.elements,
                      lines |-> [ k \in 1..Len(reassembler.elements) |->
                                    Piece(reassembler.elements[k]) ],
                      text |-> format_fountain(reassembler.elements) ]
  /\ UNCHANGED << server, parser, translator, pdf >>

ReassemblerStep == ReassemblerFormat

----------------------------------------------------------------------------
(* One call of one agent function, on any input of the bounded sets.       *)

ServerIdle ==
  /\ sessions = << >>
  /\ task = << >>
  /\ files = {}
  /\ watchers = [ w \in WatcherIds |->
                    [ pc |-> "idle", sid |-> UnknownId, last_stage |-> None,
                      current_stage |-> None, emitted |-> << >> ] ]
  /\ resp = Response("none", UnknownId, "", 0, None)

ParserInit ==
  /\ \E raw_text \in Texts, limit \in ParserLimits :
       parser = ParserCalled(raw_text, limit)
  /\ translator = NotCalled
  /\ reassembler = NotCalled
  /\ pdf = NotCalled

TranslatorInit ==
  /\ parser = NotCalled
  /\ \E elements \in Documents \cup {LongDocument}, chunk_size \in ChunkSizes,
        count \in ContextCounts :
       translator = TranslatorCalled(elements, chunk_size, count)
  /\ reassembler = NotCalled
  /\ pdf = NotCalled

PdfInit ==
  /\ parser = NotCalled
  /\ translator = NotCalled
  /\ reassembler = NotCalled
  /\ pdf = [ pc |-> "called" ]

ReassemblerInit ==
  /\ parser = NotCalled
  /\ translator = NotCalled
  /\ \E elements \in ReassemblerDocuments :
       reassembler = ReassemblerCalled(elements)
  /\ pdf = NotCalled

AgentInit == ServerIdle /\ (ParserInit \/ TranslatorInit \/ ReassemblerInit)

AgentNext == ParserStep \/ TranslatorStep \/ ReassemblerStep

AgentSpec == AgentInit /\ [][AgentNext]_vars

\* One call of format_pdf, on any text made of the lines of Lines.
PdfCall == ServerIdle /\ PdfInit

PdfSpec == PdfCall /\ [][PdfStep]_vars

----------------------------------------------------------------------------
(* The chunk splitters.                                                    *)

\* The concatenation of a sequence of sequences.
RECURSIVE Flatten(_)
Flatten(seqs) ==
  IF seqs = << >> THEN << >> ELSE Head(seqs) \o Flatten(Tail(seqs))

\* The states of translate_screenplay in which its chunks exist and the
\* elements are still as they were passed in.
TranslatorHasChunks == translator.pc \in {"loop", "raised"}

ParserHasChunks == parser.pc \in {"chunked", "returned"}

\* C11: the chunks of a splitter, concatenated in order, are its input: the
\* line chunks of parse_fountain give back the raw text character for
\* character, and the element chunks of translate_screenplay give back the
\* list of the elements with translate set, in document order.
C11_ChunksReconstructInput ==
  /\ ParserHasChunks => Flatten(parser.chunks) = parser.raw_text
  /\ TranslatorHasChunks =>
       Flatten(translator.chunks) = SelectSeq(translator.elements, IsEligible)

\* A document with an element that is not eligible, cut into several chunks.
C11_Witness ==
  /\ TranslatorHasChunks
  /\ Len(translator.chunks) >= 2
  /\ \E k \in 1..Len(translator.elements) : ~translator.elements[k].translate
  /\ Flatten(translator.chunks) = SelectSeq(translator.elements, IsEligible)

\* A line chunk is within the limit, or it is one line that alone is longer
\* than the limit.
LineChunkFits(chunk, limit) ==
  \/ Len(chunk) <= limit
  \/ Len(splitlines(chunk)) = 1 /\ Len(chunk) > limit

\* C12: every chunk of a splitter is non-empty and no larger than the limit,
\* unless it consists of one atomic unit (a line, an element) that alone
\* exceeds the limit; an empty input gives no chunk at all.
C12_ChunksBounded ==
  /\ ParserHasChunks =>
       /\ \A k \in 1..Len(parser.chunks) :
            /\ parser.chunks[k] # << >>
            /\ LineChunkFits(parser.chunks[k], parser.limit)
       /\ parser.raw_text = << >> => parser.chunks = << >>
  /\ TranslatorHasChunks =>
       \A k \in 1..Len(translator.chunks) :
         /\ translator.chunks[k] # << >>
         /\ Len(translator.chunks[k]) <= translator.chunk_size
  /\ ( /\ translator.pc \notin {"idle", "called"}
       /\ SelectSeq(translator.elements, IsEligible) = << >> )
       => "chunks" \notin DOMAIN translator

\* A text cut into several chunks, one of them a single line longer than the
\* limit.
C12_Witness ==
  /\ ParserHasChunks
  /\ Len(parser.chunks) >= 2
  /\ \E k \in 1..Len(parser.chunks) :
       /\ Len(parser.chunks[k]) > parser.limit
       /\ Len(splitlines(parser.chunks[k])) = 1
  /\ \E k \in 1..Len(parser.chunks) : Len(parser.chunks[k]) <= parser.limit

----------------------------------------------------------------------------
(* The translation merge.                                                  *)

\* translate_screenplay has returned its document to run_pipeline, which
\* then moves the session on to formatting (main.py 104-108).
TranslatorReturned == translator.pc = "returned"

\* C13: after translate_screenplay returns, every element with translate
\* unset has translated equal to original, in every document, also in one
\* without any eligible element.
C13_NonEligibleCopied ==
  TranslatorReturned =>
    \A k \in 1..Len(translator.elements) :
      ~translator.elements[k].translate =>
        translator.elements[k].translated = Some(translator.elements[k].original)

\* C14: once the translation stage is over, translated is set for every
\* element of the document, whatever its translate flag and whatever pairs
\* the translation service returned.
C14_TranslatedNeverNull ==
  TranslatorReturned =>
    \A k \in 1..Len(translator.elements) :
      translator.elements[k].translated # None

----------------------------------------------------------------------------
(* The context window.                                                     *)

\* A turn of the chunk loop has computed a window: the one of the chunk
\* before position i.
WindowComputed == translator.pc \in {"loop", "raised"} /\ translator.context # None

LastChunk == translator.chunks[translator.i - 1]

LastContext == translator.context[1]

\* The 0-based position in the document of the element with this identifier.
PositionOf(id) ==
  (CHOOSE p \in 1..Len(translator.elements) : translator.elements[p].id = id) - 1

\* The window of the last chunk is the slice of the document from position
\* max(0, s - count) up to, and without, position min(length, e + count).
C15_WindowIsSlice ==
  LET s == PositionOf(LastChunk[1].id)
      e == PositionOf(LastChunk[Len(LastChunk)].id)
      from == Max(0, s - translator.count)
      to == Min(Len(translator.elements), e + translator.count)
      window == LastContext.context_window
  IN /\ Len(window) = to - from
     /\ \A k \in 1..Len(window) : window[k] = translator.elements[from + k]
     /\ LastContext.context_start = from
     /\ LastContext.context_end = to
     /\ s = 0 => LastContext.context_start = 0
     /\ e = Len(translator.elements) - 1 =>
          LastContext.context_end = Len(translator.elements)

\* A turn of the chunk loop leaves the element list as it was.
C15_ElementsKept ==
  (translator.pc = "loop" /\ translator'.pc \in {"loop", "raised"})
    => translator'.elements = translator.elements

----------------------------------------------------------------------------
(* Pagination.                                                             *)

\* The loop body has run for pdf.line; pdf.drawn are the lines it drew.
LineLaid == pdf.pc = "laid"

\* C17: format_pdf draws no line of text with the cursor below the bottom
\* margin: when blank lines, scene-heading spacing or page-break markers
\* have taken the cursor below it, a new page is started and the cursor is
\* back at the top margin before the next line is drawn.
C17_NoLineBelowBottomMargin ==
  LineLaid =>
    \A k \in 1..Len(pdf.drawn) :
      /\ pdf.drawn[k].y >= bottom_margin
      /\ pdf.drawn[k].y <= top_margin
      /\ pdf.drawn[k].new_page => pdf.drawn[k].y = top_margin

\* A scene heading whose leading space takes the cursor below the bottom
\* margin: it is drawn at the top of a new page.
C17_Witness ==
  /\ LineLaid
  /\ ~IsBlank(pdf.line)
  /\ IsSceneHeading(pdf.line)
  /\ pdf.drawn[1].new_page
  /\ pdf.drawn[1].y = top_margin

----------------------------------------------------------------------------
(* Word-wrap.                                                              *)

\* The classes whose line is drawn by one call of write_line.
OneLineClasses == {"scene_heading", "character", "parenthetical", "transition"}

\* C18: every input line whose width in Courier 12 exceeds the usable width
\* is drawn as two or more lines, whatever its shape class.
C18_WideLineSplit ==
  (LineLaid /\ stringWidth(LineLen(pdf.line)) > usable_width)
    => Len(pdf.drawn) >= 2

\* C18, amended: a line of the action/dialogue class whose words, joined by
\* single spaces, are wider than the usable width is drawn as two or more
\* lines; a scene heading, character cue, parenthetical or transition is
\* drawn as one line whatever its width, and an action/dialogue line that is
\* too wide only by the whitespace between its words is drawn as one line.
C18_WideTextLineSplit ==
  LineLaid =>
    /\ ( /\ ShapeClass(pdf.line) = "text"
         /\ stringWidth(JoinedLen(pdf.line.words)) > usable_width )
         => Len(pdf.drawn) >= 2
    /\ ( /\ ShapeClass(pdf.line) = "text"
         /\ stringWidth(JoinedLen(pdf.line.words)) <= usable_width )
         => Len(pdf.drawn) = 1
    /\ ShapeClass(pdf.line) \in OneLineClasses => Len(pdf.drawn) = 1

\* Two words of 30 characters on an action line: 61 characters, drawn as two
\* lines.
C18_Witness ==
  /\ LineLaid
  /\ ShapeClass(pdf.line) = "text"
  /\ Len(pdf.line.words) = 2
  /\ stringWidth(JoinedLen(pdf.line.words)) > usable_width
  /\ Len(pdf.drawn) = 2

\* The words of the drawn lines, in the order they were drawn.
DrawnWords == Flatten([ k \in 1..Len(pdf.drawn) |-> pdf.drawn[k].text.words ])

\* C20: for an action/dialogue line the greedy word-wrap draws lines whose
\* words, in order, are exactly the words of the input line; every drawn
\* line is non-empty; and every drawn line fits the usable width unless it
\* is a single word that alone exceeds it.
C20_GreedyWrap ==
  (LineLaid /\ ShapeClass(pdf.line) = "text") =>
    /\ DrawnWords = pdf.line.words
    /\ \A k \in 1..Len(pdf.drawn) :
         /\ pdf.drawn[k].text.words # << >>
         /\ \/ stringWidth(JoinedLen(pdf.drawn[k].text.words)) <= usable_width
            \/ Len(pdf.drawn[k].text.words) = 1

----------------------------------------------------------------------------
(* The document reassembler.                                               *)

ReassemblerReturned == reassembler.pc = "returned"

\* The elements that reach format_fountain without a translation and whose
\* text goes into the output.
Untranslated ==
  { k \in 1..Len(reassembler.elements) :
      /\ reassembler.elements[k].translated = None
      /\ reassembler.elements[k].type # "page_break" }

Contains(text, token) == \E j \in 1..Len(text) : text[j] = token

\* C19: an element that reaches the reassembler with translated unset is
\* rendered as a literal null or empty token: its place in the output holds
\* the null token or no text, and not the element's text.
C19_NullRenderedAsToken ==
  ReassemblerReturned =>
    \A k \in Untranslated :
      /\ ~Contains(reassembler.lines[k], reassembler.elements[k].original)
      /\ \/ Contains(reassembler.lines[k], NoneToken)
         \/ \A j \in 1..Len(reassembler.lines[k]) :
              reassembler.lines[k][j] \in {LF, Marker("[["), Marker("]]")}

\* The document with every missing translation replaced by the original.
WithOriginals(elements) ==
  [ k \in 1..Len(elements) |->
      IF elements[k].translated = None
      THEN [ elements[k] EXCEPT !.translated = Some(elements[k].original) ]
      ELSE elements[k] ]

\* C19, amended: an element that reaches the reassembler with translated
\* unset is rendered with its original text: the output is the one of the
\* same document with original copied into every unset translated field,
\* and it holds no null token.
C19_NullRenderedAsOriginal ==
  ReassemblerReturned =>
    /\ reassembler.text = format_fountain(WithOriginals(reassembler.elements))
    /\ \A k \in Untranslated :
         Contains(reassembler.lines[k], reassembler.elements[k].original)
    /\ ~Contains(reassembler.text, NoneToken)

\* An eligible element without translation next to a translated one.
C19_Witness ==
  /\ ReassemblerReturned
  /\ \E k \in Untranslated : reassembler.elements[k].translate
  /\ \E k \in 1..Len(reassembler.elements) :
       reassembler.elements[k].translated =
         Some(<< "translated", reassembler.elements[k].id >>)
  /\ \E k \in Untranslated :
       Contains(reassembler.text, reassembler.elements[k].original)

\* text.split("\n"): the lines of a text, a line being the tokens between
\* two line feeds; the empty text has one empty line.
RECURSIVE SplitLF(_)
SplitLF(text) ==
  IF ~Contains(text, LF)
  THEN << text >>
  ELSE LET i == CHOOSE j \in 1..Len(text) :
                  text[j] = LF /\ \A h \in 1..(j - 1) : text[h] # LF
       IN << SubSeq(text, 1, i - 1) >> \o SplitLF(SubSeq(text, i + 1, Len(text)))

BlankLine == << >>

\* The lines of the entry of an element, by the wrapping its type has.
Wrapping(el) ==
  LET line == << ElementText(el) >>
  IN CASE el.type \in {"scene_heading", "action", "transition"} ->
            << BlankLine, line, BlankLine >>
       [] el.type = "character" -> << BlankLine, line >>
       [] el.type = "parenthetical" -> << line >>
       [] el.type = "dialogue" -> << line, BlankLine >>
       [] el.type = "note" ->
            << BlankLine, << Marker("[["), ElementText(el), Marker("]]") >>,
               BlankLine >>
       [] el.type = "page_break" ->
            << BlankLine, << Marker("===") >>, BlankLine >>

\* One entry per element, in document order, each with the wrapping of its
\* type.
EntriesWrapped ==
  /\ Len(reassembler.lines) = Len(reassembler.elements)
  /\ \A k \in 1..Len(reassembler.elements) :
       SplitLF(reassembler.lines[k]) = Wrapping(reassembler.elements[k])

\* The lines of the entries from entry k on, with the lines of separator
\* between two entries.
RECURSIVE EntryLines(_, _)
EntryLines(k, separator) ==
  IF k > Len(reassembler.lines) THEN << >>
  ELSE IF k = Len(reassembler.lines) THEN SplitLF(reassembler.lines[k])
  ELSE SplitLF(reassembler.lines[k]) \o separator \o EntryLines(k + 1, separator)

\* C21: format_fountain emits one entry per element, in document order, with
\* the blank-line wrapping of its type, and the entries are joined by a
\* single blank-line separator.
C21_JoinedByBlankLine ==
  (ReassemblerReturned /\ reassembler.elements # << >>) =>
    /\ EntriesWrapped
    /\ SplitLF(reassembler.text) = EntryLines(1, << BlankLine >>)

\* C21, amended: format_fountain emits one entry per element, in document
\* order, with the blank-line wrapping of its type, and the entries are
\* joined by a single line feed: the lines of the output are the lines of
\* the entries one after the other, so the blank lines between two elements
\* are those their own entries carry, none between a character cue and the
\* parenthetical or dialogue after it.
C21_JoinedByLineFeed ==
  ReassemblerReturned =>
    /\ EntriesWrapped
    /\ reassembler.elements # << >> =>
         SplitLF(reassembler.text) = EntryLines(1, << >>)
    /\ reassembler.elements = << >> => reassembler.text = << >>

\* A character cue with its dialogue: blank line, cue, dialogue, blank line.
C21_Witness ==
  /\ ReassemblerReturned
  /\ Len(reassembler.elements) = 2
  /\ reassembler.elements[1].type = "character"
  /\ reassembler.elements[2].type = "dialogue"
  /\ SplitLF(reassembler.text) =
       << BlankLine, << ElementText(reassembler.elements[1]) >>,
          << ElementText(reassembler.elements[2]) >>, BlankLine >>

====
